---- MODULE Spec2Model ----
(***************************************************************************)
(* A model of the directory-listing tool faf0/ls: the sort comparator and  *)
(* command-line argument partitioning (util.c), the field record builder,  *)
(* the column width tracker and the grid layout engine (print.c).          *)
(*                                                                         *)
(* Text is modelled as sequences of byte values (Nat); a C string is the   *)
(* sequence of its bytes before the terminating NUL.                       *)
(***************************************************************************)
EXTENDS Integers, Sequences, FiniteSets, TLC

VARIABLES
  sort_key,   \* util.c: enum sort_type sort_key (process-wide)
  reverse,    \* util.c: int reverse (process-wide)
  cmp_args,   \* the three entries handed to cmp, pairwise
  cmp_res,    \* cmp's results on every ordered pair of cmp_args
  cpc,        \* cmp: "call" before the comparisons, "ret" after them
  path,       \* stat_and_sort: the command-line paths, in argv order
  entries,    \* stat_and_sort: the entries array it fills
  non_dirc,   \* stat_and_sort: its return value
  apc,        \* stat_and_sort: "call" before, "ret" after, "err" on a fatal exit
  pf_call,    \* print_file: its arguments and environment [e, flag, env]
  pf_buf,     \* print_file: the cursor it left
  ppc,        \* print_file: "call" before, "ret" after, "err" on a fatal exit
  pe_call,    \* print_entries: its arguments and environment [entries, flag, env]
  gpc,        \* print_entries: "call", "lines", "search", "render", "done", "err"
  columns,    \* print_dir: int columns
  entryc_width,   \* print_dir: the widths of each entry's own fields
  max_col_width,  \* print_dir: the widths of each grid column's fields
  curr_col,   \* print_dir: int curr_col
  curr_row,   \* print_dir: int curr_row
  iters,      \* print_dir: the passes through the do-while body so far
  max_widths, \* print_entries: struct max_per_col max_widths
  pe_buf,     \* print_entries: char buf[LINE_SIZE]
  pe_i,       \* print_entries: int i, in its first loop
  out,        \* the bytes written to standard output
  size_call,  \* print_size / print_blks: [what, value, flag, BLOCKSIZE]
  size_buf,   \* print_size / print_blks: the cursor it left
  spc,        \* print_size / print_blks: "call" before, "ret" after
  dirents,    \* the names in the directory, in readdir order
  sd_flag,    \* statdir: struct flags *flag
  sd_entryc,  \* statdir: int entryc, the value of file_count
  dir_info,   \* statdir: its return value [entry, entryc]
  sdpc        \* statdir: "call", "counted", "ret", "err"

vars == <<sort_key, reverse, cmp_args, cmp_res, cpc, path, entries, non_dirc, apc,
          pf_call, pf_buf, ppc, pe_call, gpc, columns, entryc_width,
          max_col_width, curr_col, curr_row, iters, max_widths, pe_buf, pe_i, out,
          size_call, size_buf, spc, dirents, sd_flag, sd_entryc, dir_info, sdpc>>

sortVars == <<sort_key, reverse>>
recVars == <<pf_call, pf_buf, ppc>>

cmpVars == <<cmp_args, cmp_res, cpc>>
dirVars == <<columns, entryc_width, max_col_width, curr_col, curr_row, iters>>
lineVars == <<max_widths, pe_buf, pe_i>>
gridVars == <<pe_call, gpc, dirVars, lineVars, out>>
sizeVars == <<size_call, size_buf, spc>>
statVars == <<dirents, sd_flag, sd_entryc, dir_info, sdpc>>
argVars == <<path, entries, non_dirc, apc>>

(***************************************************************************)
(* Bytes and strings                                                       *)
(***************************************************************************)
Min(a, b) == IF a < b THEN a ELSE b

Max(a, b) == IF a > b THEN a ELSE b

\* A string of n copies of byte c.
Rep(c, n) == [i \in 1..n |-> c]

\* tolower(3) in the C locale, as strcasecmp applies it to each byte.
tolower(c) == IF c >= 65 /\ c <= 90 THEN c + 32 ELSE c

\* strcasecmp(3): the difference of the first pair of lowered bytes that
\* differ, the terminating NUL (0) of the shorter string included.
RECURSIVE strcasecmp(_, _)
strcasecmp(s1, s2) ==
  IF s1 = <<>> /\ s2 = <<>> THEN 0
  ELSE IF s1 = <<>> THEN 0 - tolower(Head(s2))
  ELSE IF s2 = <<>> THEN tolower(Head(s1))
  ELSE IF tolower(Head(s1)) # tolower(Head(s2))
       THEN tolower(Head(s1)) - tolower(Head(s2))
  ELSE strcasecmp(Tail(s1), Tail(s2))

(***************************************************************************)
(* util.h: enum sort_type                                                  *)
(***************************************************************************)
SORT_LEXICO == "SORT_LEXICO"
SORT_SIZE == "SORT_SIZE"
SORT_ATIME == "SORT_ATIME"
SORT_MTIME == "SORT_MTIME"
SORT_CTIME == "SORT_CTIME"
SortKeys == {SORT_LEXICO, SORT_SIZE, SORT_ATIME, SORT_MTIME, SORT_CTIME}

\* A plausible slip: the case of SORT_CTIME copied from SORT_ATIME with the
\* field left unchanged.
KeyField_CtimeReadsAtime(sb, key) ==
  CASE key = SORT_SIZE -> sb.st_size
    [] key = SORT_ATIME -> sb.st_atime
    [] key = SORT_MTIME -> sb.st_mtime
    [] key = SORT_CTIME -> sb.st_atime

\* The value of the stat field that a non-lexicographic key compares.
KeyField(sb, key) ==
  CASE key = SORT_SIZE -> sb.st_size
    [] key = SORT_ATIME -> sb.st_atime
    [] key = SORT_MTIME -> sb.st_mtime
    [] key = SORT_CTIME -> sb.st_ctime

\* A plausible slip: the equal case of the non-lexicographic keys forgotten,
\* so that equal keys keep the default result -1.
cmp_NoEqual(p1, p2, key, rev) ==
  LET res == IF key = SORT_LEXICO THEN strcasecmp(p1.name, p2.name)
             ELSE IF KeyField(p1.sb, key) < KeyField(p2.sb, key) THEN 1
             ELSE -1
  IN IF rev # 0 THEN 0 - res ELSE res

\* cmp: negative if p1 sorts before p2 under the process-wide sort_key and
\* reverse (here: key, rev), zero if they are equal, positive otherwise.
cmp(p1, p2, key, rev) ==
  LET res == IF key = SORT_LEXICO THEN strcasecmp(p1.name, p2.name)
             ELSE IF KeyField(p1.sb, key) < KeyField(p2.sb, key) THEN 1
             ELSE IF KeyField(p1.sb, key) = KeyField(p2.sb, key) THEN 0
             ELSE -1
  IN IF rev # 0 THEN 0 - res ELSE res

\* The three-way outcome of a cmp result.
Ordering(r) == IF r < 0 THEN "less" ELSE IF r = 0 THEN "equal" ELSE "greater"

(***************************************************************************)
(* struct stat and struct file_entry (util.h), as far as the program reads *)
(* them.  st_fmt is st_mode & S_IFMT, st_x says whether st_mode has any of *)
(* the execute bits S_IXUSR | S_IXGRP | S_IXOTH.                           *)
(***************************************************************************)
S_IFREG == "S_IFREG"
S_IFDIR == "S_IFDIR"
S_IFLNK == "S_IFLNK"
S_IFIFO == "S_IFIFO"
S_IFSOCK == "S_IFSOCK"
S_IFBLK == "S_IFBLK"
S_IFCHR == "S_IFCHR"
S_IFWHT == "S_IFWHT"

\* A regular file's stat buffer with the given size and timestamps.
StatOf(fmt, size, atime, mtime, ctime) ==
  [st_fmt |-> fmt, st_x |-> FALSE, st_ino |-> 2, st_blocks |-> 8,
   st_nlink |-> 1, st_uid |-> 0, st_gid |-> 0, st_size |-> size,
   st_major |-> 0, st_minor |-> 0,
   st_atime |-> atime, st_mtime |-> mtime, st_ctime |-> ctime]

FileEntry(name, sb) == [name |-> name, sb |-> sb]

S_ISDIR(sb) == sb.st_fmt = S_IFDIR

S_ISLNK(sb) == sb.st_fmt = S_IFLNK

\* What lstat(2) leaves when the path does not exist: no stat buffer.
NoEnt == [st_fmt |-> "ENOENT"]

\* An element of a malloc'ed entries array that was never assigned.
Unassigned == [name |-> <<>>, sb |-> [st_fmt |-> "unassigned"]]

(***************************************************************************)
(* cmp on three entries: SpecCmp                                           *)
(***************************************************************************)
\* Entries with names that differ in case only ("a", "A"), in length ("a",
\* "ab") and in the first byte, and with key values that tie and that order
\* differently under each key.
CmpPool ==
  { FileEntry(<<98>>, StatOf(S_IFREG, 0, 0, 1, 2)),      \* "b"
    FileEntry(<<65>>, StatOf(S_IFREG, 1, 0, 0, 1)),      \* "A"
    FileEntry(<<99>>, StatOf(S_IFDIR, 1, 2, 1, 0)),      \* "c"
    FileEntry(<<97>>, StatOf(S_IFREG, 2, 1, 2, 0)),      \* "a"
    FileEntry(<<97, 98>>, StatOf(S_IFREG, 0, 1, 0, 2)),  \* "ab"
    FileEntry(<<66>>, StatOf(S_IFLNK, 2, 2, 2, 1)) }     \* "B"

ArgsIdle ==
  /\ path = <<>>
  /\ entries = <<>>
  /\ non_dirc = 0
  /\ apc = "idle"

RecIdle ==
  /\ pf_call = <<>>
  /\ pf_buf = <<>>
  /\ ppc = "idle"

CmpIdle ==
  /\ cmp_args = <<>>
  /\ cmp_res = <<>>
  /\ cpc = "idle"

DirIdle ==
  /\ columns = 0
  /\ entryc_width = <<>>
  /\ max_col_width = <<>>
  /\ curr_col = 0
  /\ curr_row = 0
  /\ iters = 0

LinesIdle ==
  /\ max_widths = <<>>
  /\ pe_buf = <<>>
  /\ pe_i = 0

SizeIdle ==
  /\ size_call = <<>>
  /\ size_buf = <<>>
  /\ spc = "idle"

StatdirIdle ==
  /\ dirents = <<>>
  /\ sd_flag = <<>>
  /\ sd_entryc = 0
  /\ dir_info = <<>>
  /\ sdpc = "idle"

GridIdle ==
  /\ pe_call = <<>>
  /\ gpc = "idle"
  /\ DirIdle
  /\ LinesIdle
  /\ out = <<>>

InitCmp ==
  /\ sort_key \in SortKeys
  /\ reverse \in {0, 1}
  /\ cmp_args \in [1..3 -> CmpPool]
  /\ cmp_res = <<>>
  /\ cpc = "call"
  /\ ArgsIdle
  /\ RecIdle
  /\ GridIdle
  /\ SizeIdle
  /\ StatdirIdle

\* qsort calls cmp on pairs of entries while sort_key and reverse stay as
\* they were set before the sort: every ordered pair of the three entries.
Compare ==
  /\ cpc = "call"
  /\ cpc' = "ret"
  /\ cmp_res' = [i \in 1..3, j \in 1..3 |->
                   cmp(cmp_args[i], cmp_args[j], sort_key, reverse)]
  /\ UNCHANGED <<sort_key, reverse, cmp_args, argVars, recVars, gridVars, sizeVars, statVars>>

NextCmp == Compare

SpecCmp == InitCmp /\ [][NextCmp]_vars

\* C3: for a fixed sort key and reverse value, cmp is a strict weak ordering:
\* cmp(a,a) is equal; cmp(a,b) is less exactly when cmp(b,a) is greater;
\* equal is symmetric; less is transitive, and so is equal.
C3_StrictWeakOrdering ==
  cpc = "ret" =>
    \A i \in 1..3, j \in 1..3, k \in 1..3 :
      /\ Ordering(cmp_res[i, i]) = "equal"
      /\ (Ordering(cmp_res[i, j]) = "less") <=> (Ordering(cmp_res[j, i]) = "greater")
      /\ (Ordering(cmp_res[i, j]) = "equal") <=> (Ordering(cmp_res[j, i]) = "equal")
      /\ (Ordering(cmp_res[i, j]) = "less" /\ Ordering(cmp_res[j, k]) = "less")
           => Ordering(cmp_res[i, k]) = "less"
      /\ (Ordering(cmp_res[i, j]) = "equal" /\ Ordering(cmp_res[j, k]) = "equal")
           => Ordering(cmp_res[i, k]) = "equal"

\* cmp has run on a chain a < b < c of three different entries under a stat
\* key with reverse set, two of them tying with a fourth ordering elsewhere.
C3_Witness ==
  /\ cpc = "ret"
  /\ reverse = 1
  /\ sort_key = SORT_SIZE
  /\ cmp_res[1, 2] < 0
  /\ cmp_res[2, 3] < 0
  /\ cmp_res[1, 3] < 0
  /\ cmp_res[3, 1] > 0

(***************************************************************************)
(* stat_and_sort on the command-line paths: SpecArgs                       *)
(***************************************************************************)
\* limits.h NAME_MAX, the size of file_entry.name less its terminator.
NAME_MAX == 255

\* Longest argument list.
MaxArgs == 3

\* The paths the arguments are drawn from: files, directories and a symbolic
\* link, two names that differ in case only, a path that does not exist and
\* one too long for file_entry.name.
ArgPool ==
  { FileEntry(<<98>>, StatOf(S_IFREG, 1, 0, 0, 0)),          \* "b"
    FileEntry(<<65>>, StatOf(S_IFREG, 2, 0, 0, 0)),          \* "A"
    FileEntry(<<66>>, StatOf(S_IFREG, 7, 0, 0, 0)),          \* "B"
    FileEntry(<<99>>, StatOf(S_IFLNK, 3, 0, 0, 0)),          \* "c"
    FileEntry(<<68>>, StatOf(S_IFDIR, 4, 0, 0, 0)),          \* "D"
    FileEntry(<<97>>, StatOf(S_IFDIR, 5, 0, 0, 0)),          \* "a"
    FileEntry(<<120>>, NoEnt),                               \* "x", missing
    FileEntry(Rep(122, NAME_MAX + 1), StatOf(S_IFREG, 6, 0, 0, 0)) }

\* lstat(2) on a command-line path; a negative return is modelled by NoEnt.
lstat_arg(p) == p.sb

\* A plausible slip: directories counted from the end without the offset of
\* the files seen so far.
DirSlot_NoOffset(pathc, i, nd) == pathc - 1 - i

\* The index a directory is stored at: directories fill entries from the end.
DirSlot(pathc, i, nd) == pathc - 1 - i + nd

\* The for loop of stat_and_sort from index i on (0-based, as in the code),
\* with the entries filled and the non-directories counted so far.
RECURSIVE StatLoop(_, _, _, _)
StatLoop(paths, i, ents, nd) ==
  IF i >= Len(paths) THEN [st |-> "ok", entries |-> ents, non_dirc |-> nd]
  ELSE
    LET sb == lstat_arg(paths[i + 1])
        name == paths[i + 1].name
    IN IF sb = NoEnt THEN [st |-> "lstat error", entries |-> ents, non_dirc |-> nd]
       ELSE
         LET p == IF S_ISDIR(sb) THEN DirSlot(Len(paths), i, nd) ELSE nd
         IN IF Len(name) >= NAME_MAX + 1
            THEN [st |-> "path too long", entries |-> ents, non_dirc |-> nd]
            ELSE StatLoop(paths, i + 1,
                          [ents EXCEPT ![p + 1] = FileEntry(name, sb)],
                          IF S_ISDIR(sb) THEN nd ELSE nd + 1)

\* The permutations of 1..n.
Perms(n) == {f \in [1..n -> 1..n] : \A i \in 1..n, j \in 1..n : i # j => f[i] # f[j]}

\* qsort(3) with cmp under the given sort_key and reverse: some rearrangement
\* of base in which no element compares greater than a later one; which one,
\* among elements that compare equal, is the library's choice.
qsort(base, key, rev) ==
  { [i \in 1..Len(base) |-> base[f[i]]] : f \in
      { g \in Perms(Len(base)) :
          \A i \in 1..Len(base), j \in 1..Len(base) :
            i < j => cmp(base[g[i]], base[g[j]], key, rev) <= 0 } }

InitArgs ==
  /\ sort_key = SORT_LEXICO
  /\ reverse \in {0, 1}            \* main: reverse = flag.rflag
  /\ path \in UNION {[1..n -> ArgPool] : n \in 1..MaxArgs}
  /\ entries = [i \in 1..Len(path) |-> Unassigned]
  /\ non_dirc = 0
  /\ apc = "call"
  /\ CmpIdle
  /\ RecIdle
  /\ GridIdle
  /\ SizeIdle
  /\ StatdirIdle

\* stat_and_sort returns: both ranges sorted with reverse cleared and the
\* lexicographic key set.
StatAndSortReturn ==
  /\ apc = "call"
  /\ LET r == StatLoop(path, 0, entries, 0)
     IN /\ r.st = "ok"
        /\ \E files \in qsort(SubSeq(r.entries, 1, r.non_dirc), SORT_LEXICO, 0),
              dirs \in qsort(SubSeq(r.entries, r.non_dirc + 1, Len(path)), SORT_LEXICO, 0) :
             entries' = files \o dirs
        /\ non_dirc' = r.non_dirc
  /\ reverse' = 0
  /\ sort_key' = SORT_LEXICO
  /\ apc' = "ret"
  /\ UNCHANGED <<path, cmpVars, recVars, gridVars, sizeVars, statVars>>

\* stat_and_sort exits the process: lstat failed or a path is too long.
StatAndSortFatal ==
  /\ apc = "call"
  /\ LET r == StatLoop(path, 0, entries, 0)
     IN /\ r.st # "ok"
        /\ entries' = r.entries
        /\ non_dirc' = r.non_dirc
  /\ apc' = "err"
  /\ UNCHANGED <<path, sort_key, reverse, cmpVars, recVars, gridVars, sizeVars, statVars>>

NextArgs == StatAndSortReturn \/ StatAndSortFatal

SpecArgs == InitArgs /\ [][NextArgs]_vars

\* How often x occurs in the sequence s.
Count(s, x) == Cardinality({i \in 1..Len(s) : s[i] = x})

\* s with every byte lowered.
Lowered(s) == [i \in 1..Len(s) |-> tolower(s[i])]

\* s is at most t in the lexicographic order of byte strings.
RECURSIVE LexLeq(_, _)
LexLeq(s, t) ==
  IF s = <<>> THEN TRUE
  ELSE IF t = <<>> THEN FALSE
  ELSE IF Head(s) # Head(t) THEN Head(s) < Head(t)
  ELSE LexLeq(Tail(s), Tail(t))

\* C4: stat_and_sort returns the number k of non-directories; entries is a
\* permutation of the paths, entries[0..k) the non-directories and
\* entries[k..n) the directories, each range in ascending case-insensitive
\* name order.
C4_PartitionedAndSorted ==
  apc = "ret" =>
    /\ non_dirc = Cardinality({i \in 1..Len(path) : ~S_ISDIR(path[i].sb)})
    /\ Len(entries) = Len(path)
    /\ \A i \in 1..Len(path) :
         /\ Count(entries, path[i]) = Count(path, path[i])
         /\ S_ISDIR(entries[i].sb) <=> (i > non_dirc)
    /\ \A i \in 1..Len(path), j \in 1..Len(path) :
         (i < j /\ (j <= non_dirc \/ i > non_dirc))
           => LexLeq(Lowered(entries[i].name), Lowered(entries[j].name))

\* The paths "b", "A", "c" (Scenario A) came back as "A", "b", "c".
C4_Witness ==
  /\ apc = "ret"
  /\ path = << FileEntry(<<98>>, StatOf(S_IFREG, 1, 0, 0, 0)),
               FileEntry(<<65>>, StatOf(S_IFREG, 2, 0, 0, 0)),
               FileEntry(<<99>>, StatOf(S_IFLNK, 3, 0, 0, 0)) >>
  /\ non_dirc = 3
  /\ entries = << path[2], path[1], path[3] >>

(***************************************************************************)
(* print.h constants                                                       *)
(***************************************************************************)
DELIMITER == 8

LINE_SIZE == 512

TTY_COLUMNS == 80

DEFAULT_BLOCK_SIZE == 512

(***************************************************************************)
(* The record buffer and its write cursor.                                 *)
(*                                                                         *)
(* A cursor is [mem, pos, remain, size, oob, err]: mem holds the bytes     *)
(* stored in buf[0..Len(mem)), pos is buf_ptr - buf, remain models the     *)
(* size_t *remain, size is buf_size, oob tells that a byte was stored      *)
(* outside buf, err is the message of the errx that ended the process (""  *)
(* while it runs).  remain is kept as a signed number: a value below zero  *)
(* stands for the wrapped size_t 2^64 + remain, which the code reads as a  *)
(* huge positive count.                                                    *)
(***************************************************************************)
Cursor(buf_size) ==
  [mem |-> <<>>, pos |-> 0, remain |-> buf_size, size |-> buf_size,
   oob |-> FALSE, err |-> ""]

\* print_char: stores c and advances if (*remain) >= 1, else does nothing.
print_char(b, c) ==
  IF b.err # "" THEN b
  ELSE IF b.remain # 0
       THEN IF b.pos < b.size
            THEN [b EXCEPT !.mem = SubSeq(b.mem, 1, b.pos) \o <<c>>,
                           !.pos = @ + 1, !.remain = @ - 1]
            ELSE [b EXCEPT !.oob = TRUE, !.pos = @ + 1, !.remain = @ - 1]
       ELSE b

print_delim(b) == print_char(b, DELIMITER)

\* The idiom shared by print_size_dec, print_size_human, print_link and
\* print_time:
\*     printed = snprintf(*buf_ptr, *remain, ..., text);
\*     *buf_ptr += printed; *remain -= printed;
\* snprintf stores at most *remain - 1 bytes of the text and a NUL, and
\* returns the length of the whole text.
print_snprintf(b, text) ==
  IF b.err # "" THEN b
  ELSE
    LET stored == IF b.remain > 0 THEN Min(Len(text), b.remain - 1) ELSE 0
    IN [b EXCEPT
          !.mem = IF b.remain > 0
                  THEN SubSeq(b.mem, 1, b.pos) \o SubSeq(text, 1, stored) \o <<0>>
                  ELSE b.mem,
          !.oob = @ \/ b.remain < 0,
          !.pos = @ + Len(text),
          !.remain = @ - Len(text)]

\* The decimal digits of n >= 0 ("%lu").
RECURSIVE Dec(_)
Dec(n) == IF n < 10 THEN <<48 + n>> ELSE Dec(n \div 10) \o <<48 + (n % 10)>>

print_size_dec(b, size) == print_snprintf(b, Dec(size))

print_inode(b, sb) == print_size_dec(b, sb.st_ino)

\* n / d rounded to the nearest integer, ties to even, as printf rounds the
\* exactly representable double n / d (d a power of two).
RoundHalfEven(n, d) ==
  LET q == n \div d
      r == n % d
  IN IF 2 * r < d THEN q
     ELSE IF 2 * r > d THEN q + 1
     ELSE IF q % 2 = 0 THEN q ELSE q + 1

\* The while loop of print_size_human: how often size is divided by 1024
\* until the quotient is below 1000.
RECURSIVE HumanUnit(_, _)
HumanUnit(size, den) ==
  IF size >= 1000 * den THEN 1 + HumanUnit(size, den * 1024) ELSE 0

RECURSIVE Pow1024(_)
Pow1024(u) == IF u = 0 THEN 1 ELSE 1024 * Pow1024(u - 1)

\* units[] of print_size_human.
HumanUnits == <<66, 75, 77, 71, 84, 80, 69>>

\* print_size_human: result = size / 1024^unit; "%.*f" with one fractional
\* digit unless result >= 10 or result == 0; the unit letter unless unit = 0.
print_size_human(b, size) ==
  LET unit == HumanUnit(size, 1)
      den == Pow1024(unit)
      fracdigits == IF size >= 10 * den \/ size = 0 THEN 0 ELSE 1
      tenths == RoundHalfEven(10 * size, den)
      text == IF fracdigits = 0 THEN Dec(RoundHalfEven(size, den))
              ELSE Dec(tenths \div 10) \o <<46>> \o Dec(tenths % 10)
      b1 == print_snprintf(b, text)
  IN IF unit > 0 /\ unit < Len(HumanUnits)
     THEN print_char(b1, HumanUnits[unit + 1])
     ELSE b1

\* A plausible slip: the round-up of print_size_kilo left out.
print_size_kilo_Floor(b, size) == print_size_dec(b, size \div 1024)

\* print_size_kilo: size / 1024, one more if there is a remainder.
print_size_kilo(b, size) ==
  print_size_dec(b, (size \div 1024) + (IF size % 1024 > 0 THEN 1 ELSE 0))

\* get_block_size: the BLOCKSIZE variable is [set, atol]; atol is what
\* atol(3) makes of its text (0 if it is no number), stored in a size_t: a
\* value below zero stands for the wrapped size_t 2^64 + atol, which is not
\* <= 0.
get_block_size(BLOCKSIZE) ==
  IF ~BLOCKSIZE.set THEN DEFAULT_BLOCK_SIZE
  ELSE IF BLOCKSIZE.atol = 0 THEN DEFAULT_BLOCK_SIZE
  ELSE BLOCKSIZE.atol

blkcnt_t_to_bytes(blks, BLOCKSIZE) == blks * get_block_size(BLOCKSIZE)

\* blkcnt_t_to_blocks: blks / blocksize * 512 in double arithmetic, one more
\* if the result has a fractional part.  A block size below zero stands for
\* the wrapped size_t 2^64 + blocksize: the quotient is then a fraction
\* below one for every blks > 0.
blkcnt_t_to_blocks(blks, BLOCKSIZE) ==
  LET blocksize == get_block_size(BLOCKSIZE)
  IN IF blocksize < 0 THEN (IF blks > 0 THEN 1 ELSE 0)
     ELSE ((blks * 512) \div blocksize)
            + (IF (blks * 512) % blocksize > 0 THEN 1 ELSE 0)

print_blks(b, blocks, flag, BLOCKSIZE) ==
  IF flag.hflag \/ flag.kflag
  THEN IF flag.hflag
       THEN print_size_human(b, blkcnt_t_to_bytes(blocks, BLOCKSIZE))
       ELSE print_size_kilo(b, blkcnt_t_to_bytes(blocks, BLOCKSIZE))
  ELSE print_size_dec(b, blkcnt_t_to_blocks(blocks, BLOCKSIZE))

(***************************************************************************)
(* struct flags (util.h) after flags_init                                  *)
(***************************************************************************)
flags_init ==
  [Aflag |-> FALSE, aflag |-> FALSE, cflag |-> FALSE, Cflag |-> FALSE,
   dflag |-> FALSE, Fflag |-> FALSE, fflag |-> FALSE, hflag |-> FALSE,
   iflag |-> FALSE, kflag |-> FALSE, lflag |-> FALSE, nflag |-> FALSE,
   qflag |-> FALSE, Rflag |-> FALSE, rflag |-> FALSE, Sflag |-> FALSE,
   sflag |-> FALSE, tflag |-> FALSE, uflag |-> FALSE, wflag |-> FALSE,
   xflag |-> FALSE, oneflag |-> FALSE]

(***************************************************************************)
(* What the system answers during one print_file call.                     *)
(*                                                                         *)
(* An environment is [now, BLOCKSIZE, junk]: now is time(), BLOCKSIZE the   *)
(* environment variable, junk the content of memory the program reads      *)
(* before writing it.                                                      *)
(* An entry handed to print_file carries, beside name and sb, what         *)
(* readlink and the lstat of the link target answer for it at the call:    *)
(* link = [ok, target], and target_fmt (a file type, or "ENOENT") with     *)
(* target_x (its execute bits).                                            *)
(***************************************************************************)
PrintEntry(name, sb, link, target_fmt) ==
  [name |-> name, sb |-> sb, link |-> link, target_fmt |-> target_fmt,
   target_x |-> FALSE]

NoLink == [ok |-> FALSE, target |-> <<>>]

LinkTo(target) == [ok |-> TRUE, target |-> target]

\* The bytes of a C string: those before its first NUL.
CStr(mem) ==
  LET nul == {i \in 1..Len(mem) : mem[i] = 0}
  IN IF nul = {} THEN mem
     ELSE SubSeq(mem, 1, (CHOOSE i \in nul : \A j \in nul : i <= j) - 1)

\* n bytes of uninitialised memory, read from junk (repeated as needed).
Uninitialised(junk, n) == [i \in 1..n |-> junk[((i - 1) % Len(junk)) + 1]]

\* isprint(3) in the C locale.
isprint(c) == c >= 32 /\ c <= 126

\* print_char on each byte of text in turn: the bytes that still fit are
\* stored, the others dropped; with a wrapped count every byte lands
\* outside the buffer.
print_chars(b, text) ==
  IF b.err # "" \/ text = <<>> THEN b
  ELSE IF b.remain >= 0
  THEN LET k == Min(Len(text), b.remain)
       IN [b EXCEPT !.mem = IF k > 0 THEN SubSeq(b.mem, 1, b.pos) \o SubSeq(text, 1, k)
                                   ELSE b.mem,
                      !.pos = @ + k, !.remain = @ - k]
  ELSE [b EXCEPT !.oob = TRUE, !.pos = @ + Len(text), !.remain = @ - Len(text)]

\* print_name: each byte of the name, '?' for a non-printable one if the q
\* flag is set and the w flag is not.
print_name(b, name, flag) ==
  print_chars(b, [i \in 1..Len(name) |->
                    IF flag.qflag /\ ~flag.wflag /\ ~isprint(name[i])
                    THEN 63 ELSE name[i]])

print_type_symbol(b, fmt, st_x, flag) ==
  CASE fmt = S_IFDIR -> print_char(b, 47)
    [] fmt = S_IFIFO -> print_char(b, 124)
    [] fmt = S_IFLNK -> IF ~(flag.lflag \/ flag.nflag) THEN print_char(b, 64) ELSE b
    [] fmt = S_IFSOCK -> print_char(b, 61)
    [] fmt = S_IFWHT -> print_char(b, 37)
    [] OTHER -> IF st_x THEN print_char(b, 42) ELSE b

\* print_link: readlink into st_size + 1 bytes of alloca memory, a NUL stored
\* at linkname[st_size], " -> %s", and with the F flag the type symbol of
\* the target if its lstat succeeds.
print_link(b, e, flag, junk) ==
  IF b.err # "" THEN b
  ELSE
    LET st_size == e.sb.st_size
        r == Min(Len(e.link.target), st_size + 1)
        linkname == SubSeq(e.link.target, 1, Min(r, st_size))
                      \o Uninitialised(junk, st_size - Min(r, st_size))
                      \o <<0>>
    IN IF ~e.link.ok THEN [b EXCEPT !.err = "readlink error"]
       ELSE IF r > st_size THEN [b EXCEPT !.err = "symlink increased in size"]
       ELSE
         LET b1 == print_snprintf(b, <<32, 45, 62, 32>> \o CStr(linkname))
         IN IF flag.Fflag /\ e.target_fmt # "ENOENT"
            THEN print_type_symbol(b1, e.target_fmt, e.target_x, flag)
            ELSE b1

\* The user and group databases: "root" and "wheel" for id 0, a name holding
\* the delimiter byte for id 7, a name of 300 bytes for id 9, nothing for
\* 1000.
PasswdDb ==
  (0 :> [found |-> TRUE, name |-> <<114, 111, 111, 116>>])
    @@ (7 :> [found |-> TRUE, name |-> <<117, DELIMITER, 118>>])
    @@ (9 :> [found |-> TRUE, name |-> Rep(111, 300)])
    @@ (1000 :> [found |-> FALSE, name |-> <<>>])

GroupDb ==
  (0 :> [found |-> TRUE, name |-> <<119, 104, 101, 101, 108>>])
    @@ (7 :> [found |-> TRUE, name |-> <<103, DELIMITER, 104>>])
    @@ (9 :> [found |-> TRUE, name |-> <<103>>])
    @@ (1000 :> [found |-> FALSE, name |-> <<>>])

\* getpwuid(3) and getgrgid(3): [found, name], found FALSE for a NULL result.
getpwuid(uid) == PasswdDb[uid]

getgrgid(gid) == GroupDb[gid]

print_linkc(b, sb) == print_size_dec(b, sb.st_nlink)

print_owner(b, sb, flag) ==
  IF ~flag.nflag /\ getpwuid(sb.st_uid).found
  THEN print_name(b, getpwuid(sb.st_uid).name, flag)
  ELSE print_size_dec(b, sb.st_uid)

print_group(b, sb, flag) ==
  IF ~flag.nflag /\ getgrgid(sb.st_gid).found
  THEN print_name(b, getgrgid(sb.st_gid).name, flag)
  ELSE print_size_dec(b, sb.st_gid)

print_size(b, sb, flag) ==
  IF sb.st_fmt = S_IFBLK \/ sb.st_fmt = S_IFCHR
  THEN print_size_dec(print_char(print_size_dec(b, sb.st_major), 44), sb.st_minor)
  ELSE IF flag.hflag THEN print_size_human(b, sb.st_size)
  ELSE IF flag.kflag THEN print_size_kilo(b, sb.st_size)
  ELSE print_size_dec(b, sb.st_size)

\* Two decimal digits.
Dec2(n) == <<48 + ((n \div 10) % 10), 48 + (n % 10)>>

\* The six months of print_time, in seconds.
SixMonths == 6 * 30 * 24 * 60 * 60

\* strftime(3) with "%b %d %H:%M" and with "%b %d %Y" on localtime(tmt), in
\* a calendar of 30-day months named by one letter each (UTC, from 1970).
strftime_recent(tmt) ==
  <<77, 48 + ((tmt \div 2592000) % 10), 109, 32>> \o Dec2(1 + ((tmt \div 86400) % 30))
    \o <<32>> \o Dec2((tmt \div 3600) % 24) \o <<58>> \o Dec2((tmt \div 60) % 60)

strftime_old(tmt) ==
  <<77, 48 + ((tmt \div 2592000) % 10), 109, 32>> \o Dec2(1 + ((tmt \div 86400) % 30))
    \o <<32>> \o Dec(1970 + (tmt \div 31104000))

print_time(b, sb, flag, now) ==
  LET tmt == IF flag.cflag THEN sb.st_ctime
             ELSE IF flag.uflag THEN sb.st_atime
             ELSE sb.st_mtime
  IN IF (now - tmt) < SixMonths
     THEN print_snprintf(b, strftime_recent(tmt))
     ELSE print_snprintf(b, strftime_old(tmt))

\* strmode(3): the type letter and nine permission letters (a space and a NUL
\* follow them in the buffer).
strmode(sb) ==
  << CASE sb.st_fmt = S_IFDIR -> 100
       [] sb.st_fmt = S_IFLNK -> 108
       [] sb.st_fmt = S_IFIFO -> 112
       [] sb.st_fmt = S_IFSOCK -> 115
       [] sb.st_fmt = S_IFBLK -> 98
       [] sb.st_fmt = S_IFCHR -> 99
       [] sb.st_fmt = S_IFWHT -> 119
       [] OTHER -> 45 >>
    \o (IF sb.st_x THEN <<114, 119, 120, 114, 45, 120, 114, 45, 120>>
        ELSE <<114, 119, 45, 114, 45, 45, 114, 45, 45>>)

\* print_long: the mode, link count, owner, group, size and time, each
\* followed by a delimiter.
print_long(b, sb, flag, env) ==
  IF b.err # "" THEN b
  ELSE IF b.remain >= 0 /\ b.remain < 12
  THEN [b EXCEPT !.err = "buffer too small to fit mode"]
  ELSE
    LET b0 == [b EXCEPT !.mem = IF b.remain > 0
                                THEN SubSeq(b.mem, 1, b.pos) \o strmode(sb) \o <<32, 0>>
                                ELSE b.mem,
                        !.oob = @ \/ b.remain < 0,
                        !.pos = @ + 10,
                        !.remain = @ - 10]
        b1 == print_delim(b0)
        b2 == print_delim(print_linkc(b1, sb))
        b3 == print_delim(print_owner(b2, sb, flag))
        b4 == print_delim(print_group(b3, sb, flag))
        b5 == print_delim(print_size(b4, sb, flag))
    IN print_delim(print_time(b5, sb, flag, env.now))

\* is_dot_dir: the path is "." or "..".
is_dot_dir(name) == name = <<46>> \/ name = <<46, 46>>

\* is_hidden_file: the name starts with '.' and is not "." or "..".
is_hidden_file(name) == (name # <<>> /\ name[1] = 46) /\ ~is_dot_dir(name)

\* display_file: whether the file is to be printed.
display_file(name, flag) ==
  IF is_dot_dir(name) \/ is_hidden_file(name) THEN flag.aflag ELSE TRUE

\* The steps of print_file, each with its condition (print.c:741-764).
print_file_inode(b, e, flag) ==
  IF flag.iflag THEN print_delim(print_inode(b, e.sb)) ELSE b

print_file_blks(b, e, flag, env) ==
  IF flag.sflag THEN print_delim(print_blks(b, e.sb.st_blocks, flag, env.BLOCKSIZE))
  ELSE b

print_file_long(b, e, flag, env) ==
  IF flag.lflag \/ flag.nflag THEN print_long(b, e.sb, flag, env) ELSE b

print_file_type(b, e, flag) ==
  IF flag.Fflag THEN print_type_symbol(b, e.sb.st_fmt, e.sb.st_x, flag) ELSE b

print_file_link(b, e, flag, env) ==
  IF (flag.lflag \/ flag.nflag) /\ S_ISLNK(e.sb)
  THEN print_link(b, e, flag, env.junk)
  ELSE b

\* print_file: the record of entry e under flag in a buffer of buf_size bytes
\* that held old before the call.  The result is the cursor after the last
\* print_char; on the early return nothing is stored and mem is still old.
print_file(old, buf_size, e, flag, env) ==
  IF ~flag.dflag /\ ~display_file(e.name, flag)
  THEN [Cursor(buf_size) EXCEPT !.mem = old]
  ELSE
    print_char(
      print_file_link(
        print_file_type(
          print_name(
            print_file_long(
              print_file_blks(
                print_file_inode(Cursor(buf_size), e, flag),
                e, flag, env),
              e, flag, env),
            e.name, flag),
          e, flag),
        e, flag, env),
      0)

\* Whether print_file stored anything (it did not on its early return).
Stored(b) == b.pos > 0

\* Whether the buffer holds a NUL: whether a reader of the record stops
\* inside the buffer.
Terminated(b) == \E i \in 1..Len(b.mem) : b.mem[i] = 0

\* The record a reader of the buffer sees.
RecordOf(b) == CStr(b.mem)

\* The number of fields of a record: its delimiters and one.
FieldCount(rec) == Cardinality({i \in 1..Len(rec) : rec[i] = DELIMITER}) + 1

(***************************************************************************)
(* One print_file call: SpecRecord                                         *)
(***************************************************************************)
\* time() at the call, and the stamps of an old and of a recent file.
Now == 20000000

OldStamp == 1000000

RecentStamp == 19000000

\* A regular file's stat buffer; the other kinds change it.
RegularSb == StatOf(S_IFREG, 1536, RecentStamp, RecentStamp, OldStamp)

LinkSb(size) == [RegularSb EXCEPT !.st_fmt = S_IFLNK, !.st_size = size]

\* The entries print_file is called on: plain, hidden ("." first), with the
\* delimiter byte or another control byte in the name, symbolic links whose
\* target is as long as lstat said, longer, shorter, gone, holds the
\* delimiter byte, or is longer than the record buffer, a device, an
\* executable, a directory, files of unknown and of oddly named owners, and
\* a name of NAME_MAX bytes.
RecPool ==
  { PrintEntry(<<97>>, RegularSb, NoLink, "ENOENT"),
    PrintEntry(<<46, 104>>, RegularSb, NoLink, "ENOENT"),
    PrintEntry(<<46>>, [RegularSb EXCEPT !.st_fmt = S_IFDIR], NoLink, "ENOENT"),
    PrintEntry(<<97, DELIMITER, 98>>, RegularSb, NoLink, "ENOENT"),
    PrintEntry(<<97, 1>>, RegularSb, NoLink, "ENOENT"),
    PrintEntry(<<108>>, LinkSb(2), LinkTo(<<116, 116>>), S_IFDIR),
    PrintEntry(<<103>>, LinkSb(2), LinkTo(<<116, 116, 116>>), S_IFREG),
    PrintEntry(<<115>>, LinkSb(3), LinkTo(<<116>>), "ENOENT"),
    PrintEntry(<<114>>, LinkSb(3), NoLink, "ENOENT"),
    PrintEntry(<<109>>, LinkSb(3), LinkTo(<<116, DELIMITER, 117>>), S_IFREG),
    PrintEntry(<<76>>, LinkSb(600), LinkTo(Rep(116, 600)), S_IFREG),
    PrintEntry(<<118>>, [RegularSb EXCEPT !.st_fmt = S_IFBLK, !.st_major = 8,
                                           !.st_minor = 1], NoLink, "ENOENT"),
    PrintEntry(<<120>>, [RegularSb EXCEPT !.st_x = TRUE, !.st_size = 1048576,
                                           !.st_mtime = OldStamp], NoLink, "ENOENT"),
    PrintEntry(<<100>>, [RegularSb EXCEPT !.st_fmt = S_IFDIR, !.st_uid = 1000,
                                           !.st_gid = 1000], NoLink, "ENOENT"),
    PrintEntry(<<117>>, [RegularSb EXCEPT !.st_uid = 7, !.st_gid = 7], NoLink, "ENOENT"),
    PrintEntry(Rep(110, NAME_MAX), [RegularSb EXCEPT !.st_uid = 9], NoLink, "ENOENT") }

EnvOf(blocksize, junk) == [now |-> Now, BLOCKSIZE |-> blocksize, junk |-> junk]

\* BLOCKSIZE unset and set to 1024; memory that happens to start with a NUL
\* and memory that holds an old two-field record.
EnvPool ==
  { EnvOf([set |-> FALSE, atol |-> 0], <<0>>),
    EnvOf([set |-> TRUE, atol |-> 1024], <<103, DELIMITER, 103, 0>>) }

\* The flags main can leave: one of long (l), numeric long (n) or neither,
\* one of h, k or neither, q or w, and any of a, d, F, i, s.
FlagPool ==
  { [flags_init EXCEPT !.lflag = (long = "l"), !.nflag = (long = "n"),
                       !.hflag = (unit = "h"), !.kflag = (unit = "k"),
                       !.qflag = ~raw, !.wflag = raw,
                       !.aflag = a, !.dflag = d, !.Fflag = F,
                       !.iflag = i, !.sflag = sf] :
      long \in {"", "l", "n"}, unit \in {"", "h", "k"}, raw \in BOOLEAN,
      a \in BOOLEAN, d \in BOOLEAN, F \in BOOLEAN, i \in BOOLEAN, sf \in BOOLEAN }

InitRecord ==
  /\ \E e \in RecPool, flag \in FlagPool, env \in EnvPool :
       pf_call = [e |-> e, flag |-> flag, env |-> env]
  /\ pf_buf = Cursor(LINE_SIZE)
  /\ ppc = "call"
  /\ sort_key = SORT_LEXICO
  /\ reverse = 0
  /\ CmpIdle
  /\ ArgsIdle
  /\ GridIdle
  /\ SizeIdle
  /\ StatdirIdle

\* print_file returns to its caller.
PrintFileReturn ==
  /\ ppc = "call"
  /\ LET b == print_file(Uninitialised(pf_call.env.junk, LINE_SIZE), LINE_SIZE,
                         pf_call.e, pf_call.flag, pf_call.env)
     IN /\ b.err = ""
        /\ pf_buf' = b
  /\ ppc' = "ret"
  /\ UNCHANGED <<pf_call, sortVars, cmpVars, argVars, gridVars, sizeVars, statVars>>

\* print_file ends the process with errx.
PrintFileFatal ==
  /\ ppc = "call"
  /\ LET b == print_file(Uninitialised(pf_call.env.junk, LINE_SIZE), LINE_SIZE,
                         pf_call.e, pf_call.flag, pf_call.env)
     IN /\ b.err # ""
        /\ pf_buf' = b
  /\ ppc' = "err"
  /\ UNCHANGED <<pf_call, sortVars, cmpVars, argVars, gridVars, sizeVars, statVars>>

NextRecord == PrintFileReturn \/ PrintFileFatal

SpecRecord == InitRecord /\ [][NextRecord]_vars

\* The name field as print_name renders it.
ShownName(name, flag) ==
  [i \in 1..Len(name) |->
     IF flag.qflag /\ ~flag.wflag /\ ~isprint(name[i]) THEN 63 ELSE name[i]]

\* sub occurs in rec at the start of a field.
HasFieldStarting(rec, sub) ==
  \E k \in 0..(Len(rec) - Len(sub)) :
    /\ SubSeq(rec, k + 1, k + Len(sub)) = sub
    /\ (k = 0 \/ rec[k] = DELIMITER)

\* The number of fields the flags ask for: the name, the inode, the blocks,
\* and the six fields of the long format.
ExpectedFields(flag) ==
  1 + (IF flag.iflag THEN 1 ELSE 0) + (IF flag.sflag THEN 1 ELSE 0)
    + (IF flag.lflag \/ flag.nflag THEN 6 ELSE 0)

\* The cursor never reached the end of the buffer: no byte was dropped or cut.
Unexhausted(b) == b.pos < b.size

\* C5: print_file leaves a terminated record that holds the name field for
\* every entry it is called on, whatever the name and the flags, an entry
\* whose name starts with '.' with neither a nor d set included.  (Stated
\* for the calls that do not exhaust the buffer; C9 is about the others.)
C5_NameAlwaysPresent ==
  (ppc = "ret" /\ Unexhausted(pf_buf)) =>
    /\ Terminated(pf_buf)
    /\ HasFieldStarting(RecordOf(pf_buf), ShownName(pf_call.e.name, pf_call.flag))

\* C6: every record built under the same flags has the same number of
\* fields, whatever the entry: no field holds the delimiter byte.  (Stated
\* for the records print_file stored without exhausting the buffer.)
C6_FieldCountFixedByFlags ==
  (ppc = "ret" /\ Stored(pf_buf) /\ Unexhausted(pf_buf)) =>
    FieldCount(RecordOf(pf_buf)) = ExpectedFields(pf_call.flag)

\* C9: print_file ends fatally whenever the record with its terminator
\* needs more than LINE_SIZE bytes; a record it returns is whole and
\* terminated.  The whole record is the one a buffer of eight times the
\* size receives.
C9_ExhaustionIsFatal ==
  (ppc = "ret" /\ Stored(pf_buf)) =>
    LET whole == print_file(<<>>, 8 * LINE_SIZE, pf_call.e, pf_call.flag,
                            pf_call.env)
    IN /\ whole.pos <= LINE_SIZE
       /\ Terminated(pf_buf)
       /\ RecordOf(pf_buf) = RecordOf(whole)

\* C10: when readlink finds a target whose length is not the st_size of the
\* earlier lstat, longer or shorter, print_file ends fatally and returns no
\* record with a target.
C10_LinkSizeChangeIsFatal ==
  (/\ ppc = "ret"
   /\ Stored(pf_buf)
   /\ pf_call.flag.lflag \/ pf_call.flag.nflag
   /\ S_ISLNK(pf_call.e.sb)
   /\ pf_call.e.link.ok)
    => Len(pf_call.e.link.target) = pf_call.e.sb.st_size

(***************************************************************************)
(* The column width tracker: struct max_per_col (print.h) is               *)
(* [cols, max_width], max_width a sequence of cols widths (field k of the  *)
(* code is max_width[k + 1] here).                                         *)
(***************************************************************************)
get_columns(COLUMNS) ==
  IF ~COLUMNS.set THEN TTY_COLUMNS
  ELSE IF COLUMNS.atol = 0 THEN TTY_COLUMNS ELSE COLUMNS.atol

\* A plausible slip: the larger-than test of set_max_per_col left out, so
\* that the last record's width is kept.
StoreWidth_Always(dst, col, width, max) ==
  [dst EXCEPT !.max_width[col + 1] = width]

\* if (!max || (width > dst->max_width[col])) dst->max_width[col] = width;
StoreWidth(dst, col, width, max) ==
  IF ~max \/ width > dst.max_width[col + 1]
  THEN [dst EXCEPT !.max_width[col + 1] = width]
  ELSE dst

\* The for loop of set_max_per_col from byte k of the record on: it ends at
\* the end of the record or when col reaches dst->cols.
RECURSIVE set_max_loop(_, _, _, _, _, _)
set_max_loop(rec, k, col, width, dst, max) ==
  IF k > Len(rec) \/ col >= dst.cols
  THEN [col |-> col, width |-> width, dst |-> dst]
  ELSE IF rec[k] = DELIMITER
       THEN set_max_loop(rec, k + 1, col + 1, 0, StoreWidth(dst, col, width, max), max)
       ELSE set_max_loop(rec, k + 1, col, width + 1, dst, max)

\* set_max_per_col: the tracker after the record, and the errx message if
\* the loop did not end in the last column.
set_max_per_col(rec, dst, max) ==
  LET r == set_max_loop(rec, 1, 0, 0, dst, max)
  IN IF r.col = dst.cols - 1
     THEN [dst |-> StoreWidth(r.dst, r.col, r.width, max), err |-> ""]
     ELSE [dst |-> r.dst, err |-> "entry has more columns than other entries!"]

\* init_max_per_col: cols is the number of delimiters and one; the widths
\* malloc returned are all overwritten by set_max_per_col(buf, dst, 0).
init_max_per_col(rec) ==
  LET cols == Cardinality({k \in 1..Len(rec) : rec[k] = DELIMITER}) + 1
  IN set_max_per_col(rec, [cols |-> cols, max_width |-> [k \in 1..cols |-> 0]], FALSE)

update_max_per_col(rec, dst) == set_max_per_col(rec, dst, TRUE)

\* set_max: the field-wise larger widths, or the failed assertion
\* dst->cols == m1->cols, which aborts the process.
set_max(dst, m1) ==
  IF dst.cols # m1.cols
  THEN [dst |-> dst, err |-> "assertion failed: dst->cols == m1->cols"]
  ELSE [dst |-> [dst EXCEPT !.max_width =
                   [k \in 1..dst.cols |-> Max(dst.max_width[k], m1.max_width[k])]],
        err |-> ""]

\* The for loop of print_buf from byte k of the record on: the bytes it
\* hands to putchar, and col and printed when it ends.
RECURSIVE print_buf_loop(_, _, _, _, _, _)
print_buf_loop(rec, k, col, printed, widths, acc) ==
  IF k > Len(rec) \/ col >= widths.cols
  THEN [col |-> col, printed |-> printed, out |-> acc]
  ELSE IF rec[k] = DELIMITER
       THEN print_buf_loop(rec, k + 1, col + 1, 0, widths,
              acc \o Rep(32, Max(0, widths.max_width[col + 1] - printed)) \o <<32>>)
       ELSE print_buf_loop(rec, k + 1, col, printed + 1, widths, acc \o <<rec[k]>>)

\* print_buf: the bytes written for one record.
print_buf(rec, widths, newline) ==
  LET r == print_buf_loop(rec, 1, 0, 0, widths, <<>>)
  IN IF newline THEN r.out \o <<10>>
     ELSE IF r.col = widths.cols - 1
          THEN r.out \o Rep(32, Max(0, widths.max_width[r.col + 1] - r.printed)) \o <<32>>
          ELSE r.out

(***************************************************************************)
(* print_dir: the grid layout engine                                       *)
(***************************************************************************)
\* entryc / d rounded up, as print.c:631-633 and 636-638 compute it.
DivUp(entryc, d) == (entryc \div d) + (IF entryc % d # 0 THEN 1 ELSE 0)

\* The record a reader finds in the buffer print_file was handed,
\* uninitialised: print_dir declares buf inside its loops.
DirRecord(e, flag, env) ==
  print_file(Uninitialised(env.junk, LINE_SIZE), LINE_SIZE, e, flag, env)

\* print.c:641-645: every width of every max_col_width[i] set to 1.
ResetWidths(mcw) ==
  [c \in 1..Len(mcw) |-> [mcw[c] EXCEPT !.max_width = [k \in 1..mcw[c].cols |-> 1]]]

\* A plausible slip: rows across laid out with the column-down index.
GridColumn_AlwaysDown(Cflag, p, rows, cols) == p \div rows

\* The grid column of entry p (0-based): print.c:652.
GridColumn(Cflag, p, rows, cols) == IF Cflag THEN p \div rows ELSE p % cols

\* print.c:651-654 from entry p on (0-based): each entry's widths folded
\* into the widths of its grid column, up to a failed assertion.
RECURSIVE FoldColumns(_, _, _, _, _, _)
FoldColumns(p, mcw, ew, Cflag, rows, cols) ==
  IF p >= Len(ew) THEN [mcw |-> mcw, err |-> ""]
  ELSE LET coli == GridColumn(Cflag, p, rows, cols)
           r == set_max(mcw[coli + 1], ew[p + 1])
       IN IF r.err # "" THEN [mcw |-> mcw, err |-> r.err]
          ELSE FoldColumns(p + 1, [mcw EXCEPT ![coli + 1] = r.dst], ew, Cflag, rows, cols)

RECURSIVE SumSeq(_)
SumSeq(w) == IF w = <<>> THEN 0 ELSE w[1] + SumSeq(Tail(w))

\* A plausible slip: the separating blanks left out of the count.
RowChars_NoBlanks(mcw, ew, cols) ==
  SumSeq([c \in 1..cols |-> SumSeq(mcw[c].max_width)])

\* print.c:661-668: the widths of the first cols grid columns and the
\* separating blanks.
RowChars(mcw, ew, cols) ==
  SumSeq([c \in 1..cols |-> SumSeq(mcw[c].max_width)]) + (cols * ew[1].cols) - 1

\* A plausible slip: the last layout tested after it was passed.
CannotChange_Late(Cflag, entryc, rows, cols) ==
  IF Cflag THEN rows > entryc ELSE cols = 1

\* print.c:656-657: the layout that cannot be changed anymore.
CannotChange(Cflag, entryc, rows, cols) ==
  IF Cflag THEN rows = entryc ELSE cols = 1

\* One pass through the body of the do-while loop (print.c:628-677): the
\* layout tried, the widths of its columns, and how the pass ends: "abort"
\* (assertion), "break", "fits" or "again" with the next layout to try.
SearchPass(Cflag, entryc, rows0, cols0, ew, mcw0, width) ==
  LET cols == IF Cflag THEN DivUp(entryc, rows0) ELSE cols0
      rows == IF Cflag THEN rows0 ELSE DivUp(entryc, cols0)
      f == FoldColumns(0, ResetWidths(mcw0), ew, Cflag, rows, cols)
      tried == [curr_row |-> rows, curr_col |-> cols, mcw |-> f.mcw, err |-> f.err]
  IN IF f.err # "" THEN tried @@ [end |-> "abort"]
     ELSE IF CannotChange(Cflag, entryc, rows, cols) THEN tried @@ [end |-> "break"]
     ELSE IF RowChars(f.mcw, ew, cols) <= width THEN tried @@ [end |-> "fits"]
     ELSE [tried EXCEPT !.curr_row = IF Cflag THEN rows + 1 ELSE rows,
                        !.curr_col = IF Cflag THEN cols ELSE cols - 1]
          @@ [end |-> "again"]

\* A plausible slip: the cells numbered along the rows.
DownIndex_AlongRows(i, j, rows) == i * rows + j

\* print.c:684: the entry (0-based) shown in row i, grid column j.
DownIndex(i, j, rows) == i + j * rows

\* print.c:681-696 from cell c on, cells counted row by row: the bytes
\* written, up to a fatal print_file.
RECURSIVE RenderDown(_, _, _, _, _, _, _, _)
RenderDown(c, rows, cols, ents, flag, env, mcw, acc) ==
  IF c >= rows * cols THEN [out |-> acc, err |-> ""]
  ELSE LET r == c \div cols
           j == c % cols
           p == DownIndex(r, j, rows)
       IN IF p < Len(ents)
          THEN LET b == DirRecord(ents[p + 1], flag, env)
               IN IF b.err # "" THEN [out |-> acc, err |-> b.err]
                  ELSE RenderDown(c + 1, rows, cols, ents, flag, env, mcw,
                         acc \o print_buf(CStr(b.mem), mcw[j + 1], j = cols - 1))
          ELSE RenderDown(c + 1, rows, cols, ents, flag, env, mcw, acc \o <<10>>)

\* print.c:699-708 from entry p on (0-based).
RECURSIVE RenderAcross(_, _, _, _, _, _, _)
RenderAcross(p, cols, ents, flag, env, mcw, acc) ==
  IF p >= Len(ents) THEN [out |-> acc, err |-> ""]
  ELSE LET coli == p % cols
           b == DirRecord(ents[p + 1], flag, env)
       IN IF b.err # "" THEN [out |-> acc, err |-> b.err]
          ELSE RenderAcross(p + 1, cols, ents, flag, env, mcw,
                 acc \o print_buf(CStr(b.mem), mcw[coli + 1],
                                  coli = cols - 1 \/ p = Len(ents) - 1))

\* print.c:830-833 from entry p on (0-based): the buffer is the one of the
\* first loop, each record overwrites the one before.
RECURSIVE RenderLines(_, _, _, _, _, _, _)
RenderLines(p, mem, ents, flag, env, widths, acc) ==
  IF p >= Len(ents) THEN [out |-> acc, mem |-> mem, err |-> ""]
  ELSE LET b == print_file(mem, LINE_SIZE, ents[p + 1], flag, env)
       IN IF b.err # "" THEN [out |-> acc, mem |-> b.mem, err |-> b.err]
          ELSE RenderLines(p + 1, b.mem, ents, flag, env, widths,
                 acc \o print_buf(CStr(b.mem), widths, TRUE))

(***************************************************************************)
(* One print_entries call: SpecGrid                                        *)
(***************************************************************************)
\* The largest batch and the widest terminal tried.
MaxEntries == 4

MaxColumns == 10

\* A short entry, one with a wide block count, one with a wide name, and
\* one whose name holds the delimiter byte.
GridPool ==
  { PrintEntry(<<97>>, RegularSb, NoLink, "ENOENT"),
    PrintEntry(<<98>>, [RegularSb EXCEPT !.st_blocks = 128], NoLink, "ENOENT"),
    PrintEntry(<<99, 99, 99>>, RegularSb, NoLink, "ENOENT"),
    PrintEntry(<<100, DELIMITER, 101>>, RegularSb, NoLink, "ENOENT") }

\* Columns down (C), rows across (x) or one entry per line (1), with and
\* without the block count (s); names are written raw (w).
GridFlags ==
  { [flags_init EXCEPT !.Cflag = (mode = "C"), !.xflag = (mode = "x"),
                       !.oneflag = (mode = "1"), !.sflag = sf, !.wflag = TRUE] :
      mode \in {"C", "x", "1"}, sf \in BOOLEAN }

\* COLUMNS unset or set to a positive number; it is read in grid mode only.
GridEnvs(flag) ==
  LET env == EnvOf([set |-> FALSE, atol |-> 0], <<0>>)
  IN { env @@ [COLUMNS |-> c] :
         c \in {[set |-> FALSE, atol |-> 0]} \cup
               (IF flag.Cflag \/ flag.xflag
                THEN {[set |-> TRUE, atol |-> w] : w \in 1..MaxColumns}
                ELSE {}) }

IsGrid == pe_call.flag.Cflag \/ pe_call.flag.xflag

entryc == Len(pe_call.entries)

InitGrid ==
  /\ \E ents \in UNION {[1..n -> GridPool] : n \in 0..MaxEntries}, flag \in GridFlags :
       \E env \in GridEnvs(flag) :
         /\ pe_call = [entries |-> ents, flag |-> flag, env |-> env]
         /\ pe_buf = IF flag.Cflag \/ flag.xflag THEN <<>>
                     ELSE Uninitialised(env.junk, LINE_SIZE)
  /\ gpc = "call"
  /\ DirIdle
  /\ max_widths = <<>>
  /\ pe_i = 0
  /\ out = <<>>
  /\ sort_key = SORT_LEXICO
  /\ reverse = 0
  /\ CmpIdle
  /\ ArgsIdle
  /\ RecIdle
  /\ SizeIdle
  /\ StatdirIdle

otherVars == <<sortVars, cmpVars, argVars, recVars, sizeVars, statVars>>

\* print_dir up to its do-while loop (print.c:600-627): the width of the
\* terminal, and both width arrays from each entry's record.
PrintDirMeasure ==
  /\ gpc = "call"
  /\ IsGrid
  /\ IF entryc = 0
     THEN /\ gpc' = "done"
          /\ UNCHANGED dirVars
     ELSE LET recs == [p \in 1..entryc |->
                         DirRecord(pe_call.entries[p], pe_call.flag, pe_call.env)]
              w == [p \in 1..entryc |-> init_max_per_col(CStr(recs[p].mem)).dst]
          IN /\ columns' = get_columns(pe_call.env.COLUMNS)
             /\ IF \E p \in 1..entryc : recs[p].err # ""
                THEN /\ gpc' = "err"
                     /\ UNCHANGED <<entryc_width, max_col_width, curr_col, curr_row>>
                ELSE /\ gpc' = "search"
                     /\ entryc_width' = w
                     /\ max_col_width' = w
                     /\ curr_col' = entryc
                     /\ curr_row' = 1
             /\ UNCHANGED iters
  /\ UNCHANGED <<pe_call, lineVars, out, otherVars>>

\* One pass through the do-while loop of print_dir.
SearchIteration ==
  /\ gpc = "search"
  /\ LET sp == SearchPass(pe_call.flag.Cflag, entryc, curr_row, curr_col,
                          entryc_width, max_col_width, columns)
     IN /\ curr_row' = sp.curr_row
        /\ curr_col' = sp.curr_col
        /\ max_col_width' = sp.mcw
        /\ gpc' = CASE sp.end = "abort" -> "err"
                    [] sp.end = "again" -> "search"
                    [] OTHER -> "render"
  /\ iters' = iters + 1
  /\ UNCHANGED <<pe_call, columns, entryc_width, lineVars, out, otherVars>>

\* The printing of print_dir with the C flag.
RenderColumnsDown ==
  /\ gpc = "render"
  /\ pe_call.flag.Cflag
  /\ LET r == RenderDown(0, curr_row, curr_col, pe_call.entries, pe_call.flag,
                         pe_call.env, max_col_width, <<>>)
     IN /\ out' = r.out
        /\ gpc' = IF r.err # "" THEN "err" ELSE "done"
  /\ UNCHANGED <<pe_call, dirVars, lineVars, otherVars>>

\* The printing of print_dir with the x flag.
RenderRowsAcross ==
  /\ gpc = "render"
  /\ ~pe_call.flag.Cflag
  /\ LET r == RenderAcross(0, curr_col, pe_call.entries, pe_call.flag,
                           pe_call.env, max_col_width, <<>>)
     IN /\ out' = r.out
        /\ gpc' = IF r.err # "" THEN "err" ELSE "done"
  /\ UNCHANGED <<pe_call, dirVars, lineVars, otherVars>>

\* One pass through the first loop of print_entries (print.c:823-829).
MeasureLine ==
  /\ gpc \in {"call", "lines"}
  /\ ~IsGrid
  /\ pe_i < entryc
  /\ LET b == print_file(pe_buf, LINE_SIZE, pe_call.entries[pe_i + 1],
                         pe_call.flag, pe_call.env)
         r == IF pe_i = 0 THEN init_max_per_col(CStr(b.mem))
              ELSE update_max_per_col(CStr(b.mem), max_widths)
     IN /\ pe_buf' = b.mem
        /\ IF b.err # ""
           THEN gpc' = "err" /\ UNCHANGED <<max_widths, pe_i>>
           ELSE /\ max_widths' = r.dst
                /\ gpc' = IF r.err # "" THEN "err" ELSE "lines"
                /\ pe_i' = IF r.err # "" THEN pe_i ELSE pe_i + 1
  /\ UNCHANGED <<pe_call, dirVars, out, otherVars>>

\* The second loop of print_entries (print.c:830-833).
PrintLines ==
  /\ gpc \in {"call", "lines"}
  /\ ~IsGrid
  /\ pe_i = entryc
  /\ LET r == RenderLines(0, pe_buf, pe_call.entries, pe_call.flag, pe_call.env,
                          max_widths, <<>>)
     IN /\ out' = r.out
        /\ pe_buf' = r.mem
        /\ gpc' = IF r.err # "" THEN "err" ELSE "done"
  /\ UNCHANGED <<pe_call, dirVars, max_widths, pe_i, otherVars>>

NextGrid ==
  \/ PrintDirMeasure
  \/ SearchIteration
  \/ RenderColumnsDown
  \/ RenderRowsAcross
  \/ MeasureLine
  \/ PrintLines

SpecGrid == InitGrid /\ [][NextGrid]_vars

\* The record of the p-th entry of the batch.
RecordAt(p) ==
  RecordOf(DirRecord(pe_call.entries[p], pe_call.flag, pe_call.env))

SetMax(S) == CHOOSE x \in S : \A y \in S : y <= x

\* The position of the k-th delimiter of a record; 0 for k = 0 and one past
\* the end for the delimiter that would follow the last field.
DelimAt(rec, k) ==
  IF k = 0 THEN 0
  ELSE IF k >= FieldCount(rec) THEN Len(rec) + 1
  ELSE CHOOSE d \in 1..Len(rec) :
         /\ rec[d] = DELIMITER
         /\ Cardinality({j \in 1..d : rec[j] = DELIMITER}) = k

\* The lengths of the fields of a record.
FieldLens(rec) ==
  [k \in 1..FieldCount(rec) |-> DelimAt(rec, k) - DelimAt(rec, k - 1) - 1]

\* The records of the first n entries have the field count of the first.
SameFieldCount(n) ==
  \A p \in 1..n : FieldCount(RecordAt(p)) = FieldCount(RecordAt(1))

\* The lengths of the rows written: the bytes between newlines.
RowWidths(o) ==
  LET nl == {k \in 1..Len(o) : o[k] = 10}
      before(k) == SetMax({0} \cup {j \in nl : j < k})
  IN {k - before(k) - 1 : k \in nl} \cup {Len(o) - SetMax({0} \cup nl)}

\* Width of the widest record printed alone, its fields one blank apart.
WidestRecord == SetMax({Len(RecordAt(p)) : p \in 1..entryc})

\* Width of the batch printed one record per row with its fields aligned:
\* each field as wide as the widest of its kind, one blank apart.
AlignedWidth ==
  LET cols == FieldCount(RecordAt(1))
  IN SumSeq([k \in 1..cols |->
               SetMax({1} \cup {FieldLens(RecordAt(p))[k] : p \in 1..entryc})])
       + cols - 1

\* C1: the search for a layout that fits ends after at most as many passes
\* as the batch has entries, in both grid modes and for every width: no
\* state has counted more passes, a state in the loop has counted fewer, and
\* every step from a state in the loop is one more pass.
C1_SearchBounded ==
  /\ [](iters <= entryc /\ (gpc = "search" => iters < entryc))
  /\ [][gpc = "search" =>
          (iters' = iters + 1 /\ gpc' \in {"search", "render", "err"})]_vars

\* The search that needed as many passes as there are entries.
C1_Witness ==
  /\ gpc = "render"
  /\ entryc >= 3
  /\ iters = entryc

\* C2 as stated: in grid mode, for a batch of records with equal field
\* counts, no row written is longer than the target width unless the target
\* width is smaller than the widest single record.
C2_RowsFitUnlessRecordTooWide ==
  (gpc = "done" /\ IsGrid /\ entryc > 0 /\ SameFieldCount(entryc)) =>
    \/ \A w \in RowWidths(out) : w <= columns
    \/ columns < WidestRecord

\* C2 amended: in grid mode, for a batch of records with equal field
\* counts, no row written is longer than the target width unless the target
\* width is smaller than the width of the batch printed one record per row
\* with aligned fields.
C2_RowsFitUnlessAlignedTooWide ==
  (gpc = "done" /\ IsGrid /\ entryc > 0 /\ SameFieldCount(entryc)) =>
    \/ \A w \in RowWidths(out) : w <= columns
    \/ columns < AlignedWidth

\* Three two-field records laid out in two grid columns that fit.
C2_Witness ==
  /\ gpc = "done"
  /\ IsGrid
  /\ pe_call.flag.sflag
  /\ entryc = 3
  /\ SameFieldCount(entryc)
  /\ curr_col = 2
  /\ columns <= MaxColumns
  /\ \A w \in RowWidths(out) : w <= columns
  /\ \E w \in RowWidths(out) : w > WidestRecord

C8_TrackerHoldsFieldMaxima ==
  (gpc = "lines" /\ SameFieldCount(pe_i)) =>
    /\ max_widths.cols = Count(RecordAt(1), DELIMITER) + 1
    /\ Len(max_widths.max_width) = max_widths.cols
    /\ \A k \in 1..max_widths.cols :
         max_widths.max_width[k] =
           SetMax({FieldLens(RecordAt(p))[k] : p \in 1..pe_i})

\* Three two-field records folded, the last one the widest in neither field.
C8_Witness ==
  /\ gpc = "lines"
  /\ pe_i = 3
  /\ max_widths = [cols |-> 2, max_width |-> <<3, 3>>]
  /\ FieldLens(RecordAt(3)) = <<1, 1>>

(***************************************************************************)
(* print_entries line by line in long format, while the clock and the      *)
(* file system go on: SpecLines                                            *)
(***************************************************************************)
\* time() six months after RecentStamp: a file stamped RecentStamp is
\* recent at Now and old at Later.
Later == RecentStamp + SixMonths

\* A regular file and a symbolic link whose target is as long as lstat said.
LinesPool ==
  { PrintEntry(<<97>>, RegularSb, NoLink, "ENOENT"),
    PrintEntry(<<108>>, LinkSb(2), LinkTo(<<116, 116>>), S_IFREG) }

\* What readlink answers once the link was replaced: a longer target, or
\* nothing (the link is gone).
LinkAnswers == {LinkTo(<<116, 116, 116>>), NoLink}

InitLines ==
  /\ \E ents \in UNION {[1..n -> LinesPool] : n \in 1..MaxEntries} :
       pe_call = [entries |-> ents,
                  flag |-> [flags_init EXCEPT !.lflag = TRUE, !.wflag = TRUE],
                  env |-> EnvOf([set |-> FALSE, atol |-> 0], <<0>>)
                            @@ [COLUMNS |-> [set |-> FALSE, atol |-> 0]]]
  /\ pe_buf = Uninitialised(<<0>>, LINE_SIZE)
  /\ gpc = "call"
  /\ DirIdle
  /\ max_widths = <<>>
  /\ pe_i = 0
  /\ out = <<>>
  /\ sort_key = SORT_LEXICO
  /\ reverse = 0
  /\ CmpIdle
  /\ ArgsIdle
  /\ RecIdle
  /\ SizeIdle
  /\ StatdirIdle

\* Time passes while print_entries runs: the next time() (print.c:500)
\* answers Later.
ClockPasses ==
  /\ gpc \in {"call", "lines"}
  /\ pe_call.env.now < Later
  /\ pe_call' = [pe_call EXCEPT !.env.now = Later]
  /\ UNCHANGED <<gpc, dirVars, lineVars, out, otherVars>>

\* Another process replaces or removes a symbolic link of the batch while
\* print_entries runs: the next readlink (print.c:355) answers otherwise
\* than the lstat stored in the entry.
LinkChanges ==
  /\ gpc \in {"call", "lines"}
  /\ \E p \in 1..entryc, answer \in LinkAnswers :
       /\ S_ISLNK(pe_call.entries[p].sb)
       /\ pe_call.entries[p].link.ok
       /\ Len(pe_call.entries[p].link.target) = pe_call.entries[p].sb.st_size
       /\ pe_call' = [pe_call EXCEPT !.entries[p].link = answer]
  /\ UNCHANGED <<gpc, dirVars, lineVars, out, otherVars>>

NextLines ==
  \/ MeasureLine
  \/ PrintLines
  \/ ClockPasses
  \/ LinkChanges

SpecLines == InitLines /\ [][NextLines]_vars

\* C11: print_entries either writes the whole batch or ends the process
\* before it has written anything of it: a fatal exit leaves no output.
C11_NoPartialOutput ==
  gpc = "err" => out = <<>>

\* C12: print_file depends on the entry, the flags and the directory only:
\* the record the first loop left in buf for entry pe_i is the record a
\* second call for that entry builds.
C12_RebuiltRecordIsSame ==
  (gpc = "lines" /\ pe_i >= 1) =>
    CStr(pe_buf) = CStr(print_file(pe_buf, LINE_SIZE, pe_call.entries[pe_i],
                                   pe_call.flag, pe_call.env).mem)

(***************************************************************************)
(* One print_size or print_blks call: SpecSize                             *)
(***************************************************************************)
\* Byte sizes 0..MaxSize and block counts 0..MaxBlocks are tried, with a few
\* larger ones around the unit boundaries.
MaxSize == 1100

MaxBlocks == 40

ByteSizes ==
  (0..MaxSize) \cup {1536, 10239, 10240, 102400, 1023487, 1023488, 1023999,
                     1024000, 1048576, 10485760, 104857600}

BlockCounts == (0..MaxBlocks) \cup {1000, 1999, 2000, 2048}

\* The h and k flags, each set or not.
SizeFlags ==
  {[flags_init EXCEPT !.hflag = h, !.kflag = k] : h \in BOOLEAN, k \in BOOLEAN}

\* BLOCKSIZE unset, no number or zero, negative, and positive.
BlockSizes ==
  {[set |-> FALSE, atol |-> 0]} \cup {[set |-> TRUE, atol |-> a] : a \in {-1, 0, 512, 1024, 1000}}

\* The wrapped product of a block count and a wrapped block size is not
\* modelled: a negative BLOCKSIZE is tried with the decimal block count only.
InitSize ==
  /\ \/ \E v \in ByteSizes, flag \in SizeFlags :
          size_call = [what |-> "size", value |-> v, flag |-> flag,
                       BLOCKSIZE |-> [set |-> FALSE, atol |-> 0]]
     \/ \E v \in BlockCounts, flag \in SizeFlags, bs \in BlockSizes :
          /\ bs.atol < 0 => (~flag.hflag /\ ~flag.kflag)
          /\ size_call = [what |-> "blks", value |-> v, flag |-> flag, BLOCKSIZE |-> bs]
  /\ size_buf = Cursor(LINE_SIZE)
  /\ spc = "call"
  /\ sort_key = SORT_LEXICO
  /\ reverse = 0
  /\ CmpIdle
  /\ ArgsIdle
  /\ RecIdle
  /\ GridIdle
  /\ StatdirIdle

\* print_size on a regular file of value bytes (print.c:547).
PrintSize ==
  /\ spc = "call"
  /\ size_call.what = "size"
  /\ size_buf' = print_size(size_buf, [RegularSb EXCEPT !.st_size = size_call.value],
                            size_call.flag)
  /\ spc' = "ret"
  /\ UNCHANGED <<size_call, sortVars, cmpVars, argVars, recVars, gridVars, statVars>>

\* print_blks on value blocks (print.c:748, ls.c:278).
PrintBlks ==
  /\ spc = "call"
  /\ size_call.what = "blks"
  /\ size_buf' = print_blks(size_buf, size_call.value, size_call.flag,
                            size_call.BLOCKSIZE)
  /\ spc' = "ret"
  /\ UNCHANGED <<size_call, sortVars, cmpVars, argVars, recVars, gridVars, statVars>>

NextSize == PrintSize \/ PrintBlks

SpecSize == InitSize /\ [][NextSize]_vars

\* The text the call wrote.
SizeText == SubSeq(size_buf.mem, 1, size_buf.pos)

IsDigit(c) == c >= 48 /\ c <= 57

\* The number a text of decimal digits denotes.
RECURSIVE ParseDec(_)
ParseDec(t) ==
  IF t = <<>> THEN 0
  ELSE 10 * ParseDec(SubSeq(t, 1, Len(t) - 1)) + (t[Len(t)] - 48)

\* A decimal integer without sign or leading zero.
IsDecimal(t) ==
  /\ t # <<>>
  /\ \A k \in 1..Len(t) : IsDigit(t[k])
  /\ Len(t) > 1 => t[1] # 48

\* The digits a text starts with.
LeadingDigits(t) ==
  SubSeq(t, 1, SetMax({k \in 0..Len(t) : \A j \in 1..k : IsDigit(t[j])}))

\* The bytes a call converts under the default block size.
SizeBytes ==
  IF size_call.what = "size" THEN size_call.value
  ELSE size_call.value * DEFAULT_BLOCK_SIZE

DefaultBlockSize == ~size_call.BLOCKSIZE.set \/ size_call.BLOCKSIZE.atol = 0

\* C13: the human-readable text of a byte value is its quotient by 1024^u,
\* u the number of divisions by 1024 while the value is >= 1000, with one
\* fractional digit unless the quotient is >= 10 or 0, followed by the u-th
\* letter of BKMGTPE unless u = 0; the number before the point is below
\* 1000, and 1048576 gives "1.0M".
C13_HumanReadable ==
  (spc = "ret" /\ size_call.flag.hflag /\ size_call.what = "size") =>
    LET v == size_call.value
        u == HumanUnit(v, 1)
        t == SizeText
        num == IF u = 0 THEN t ELSE SubSeq(t, 1, Len(t) - 1)
        whole == LeadingDigits(num)
        oneDigit == ~(v >= 10 * Pow1024(u) \/ v = 0)
    IN /\ t # <<>>
       /\ u > 0 => t[Len(t)] = HumanUnits[u + 1]
       /\ IsDecimal(whole)
       /\ IF oneDigit
          THEN /\ Len(num) = Len(whole) + 2
               /\ num[Len(whole) + 1] = 46
               /\ IsDigit(num[Len(num)])
          ELSE num = whole
       /\ ParseDec(whole) < 1000
       /\ v = 1048576 => t = <<49, 46, 48, 77>>

\* C14: with the k flag (and not h) the text is the decimal integer
\* ceil(bytes / 1024) with no suffix, the bytes of a block count under the
\* default block size being blocks * 512.
C14_KiloIsCeiling ==
  (/\ spc = "ret"
   /\ size_call.flag.kflag
   /\ ~size_call.flag.hflag
   /\ DefaultBlockSize) =>
    /\ IsDecimal(SizeText)
    /\ ParseDec(SizeText) * 1024 >= SizeBytes
    /\ (ParseDec(SizeText) - 1) * 1024 < SizeBytes

\* 1536 bytes in kilobyte mode are written as "2".
C14_Witness ==
  /\ spc = "ret"
  /\ size_call.flag.kflag
  /\ ~size_call.flag.hflag
  /\ size_call.what = "size"
  /\ size_call.value = 1536
  /\ SizeText = <<50>>

\* C15: the decimal block count is written in units of 512 bytes whenever
\* BLOCKSIZE is absent, no number, zero or negative, where it equals the raw
\* block count, and in units of BLOCKSIZE when that is a positive number.
C15_BlockSizeFallback ==
  (/\ spc = "ret"
   /\ size_call.what = "blks"
   /\ ~size_call.flag.hflag
   /\ ~size_call.flag.kflag) =>
    LET bs == size_call.BLOCKSIZE
        unit == IF bs.set /\ bs.atol > 0 THEN bs.atol ELSE 512
        n == ParseDec(SizeText)
    IN /\ IsDecimal(SizeText)
       /\ n * unit >= size_call.value * 512
       /\ (n - 1) * unit < size_call.value * 512
       /\ unit = 512 => n = size_call.value

\* The width of the batch laid out in rows x cols: for each grid column the
\* largest length of each field among the entries of that column, and one
\* blank after every field but the last of the row.  Entry p (0-based) is
\* in grid column p div rows when filled down, p mod cols when filled across.
LayoutWidth(down, rows, cols) ==
  LET fields == FieldCount(RecordAt(1))
      inCol(c) == {p \in 1..entryc :
                     (IF down THEN (p - 1) \div rows ELSE (p - 1) % cols) = c}
  IN SumSeq([c \in 1..cols |->
               SumSeq([k \in 1..fields |->
                         SetMax({0} \cup {FieldLens(RecordAt(p))[k] : p \in inCol(c - 1)})])])
       + cols * fields - 1

\* The least number q with q * d >= n.
CeilDiv(n, d) == CHOOSE q \in 0..n : q * d >= n /\ (q - 1) * d < n

\* C16: the search ends with the first layout, in its order, whose width is
\* at most the target: filled down, the least row count that fits, no
\* smaller one fitting; filled across, the largest column count that fits,
\* no larger one fitting; the single column only if nothing before it fits;
\* and it took one pass per layout tried.
C16_FirstFitAccepted ==
  (gpc \in {"render", "done"} /\ IsGrid /\ entryc > 0 /\ SameFieldCount(entryc)) =>
    IF pe_call.flag.Cflag
    THEN /\ curr_col = CeilDiv(entryc, curr_row)
         /\ \A r \in 1..(curr_row - 1) :
              LayoutWidth(TRUE, r, CeilDiv(entryc, r)) > columns
         /\ curr_row < entryc => LayoutWidth(TRUE, curr_row, curr_col) <= columns
         /\ iters = curr_row
    ELSE /\ curr_row = CeilDiv(entryc, curr_col)
         /\ \A c \in (curr_col + 1)..entryc :
              LayoutWidth(FALSE, CeilDiv(entryc, c), c) > columns
         /\ curr_col > 1 => LayoutWidth(FALSE, curr_row, curr_col) <= columns
         /\ iters = entryc - curr_col + 1

\* Four entries named "a" filled down at width 10: one pass, one row of
\* four columns, "a a a a" written.
C16_Witness ==
  /\ gpc = "done"
  /\ pe_call.flag.Cflag
  /\ ~pe_call.flag.sflag
  /\ columns = 10
  /\ entryc = 4
  /\ \A p \in 1..4 : RecordAt(p) = <<97>>
  /\ iters = 1
  /\ curr_row = 1
  /\ curr_col = 4
  /\ LayoutWidth(TRUE, 1, 4) = 7
  /\ out = <<97, 32, 97, 32, 97, 32, 97, 10>>

\* The pieces of s between the bytes sep, from position k on.
RECURSIVE SplitFrom(_, _, _, _, _)
SplitFrom(s, k, sep, done, cur) ==
  IF k > Len(s) THEN Append(done, cur)
  ELSE IF s[k] = sep
       THEN SplitFrom(s, k + 1, sep, Append(done, cur), <<>>)
       ELSE SplitFrom(s, k + 1, sep, done, Append(cur, s[k]))

Split(s, sep) == SplitFrom(s, 1, sep, <<>>, <<>>)

\* The non-empty pieces of a sequence of pieces.
RECURSIVE NonEmpty(_)
NonEmpty(ps) ==
  IF ps = <<>> THEN <<>>
  ELSE (IF Head(ps) = <<>> THEN <<>> ELSE <<Head(ps)>>) \o NonEmpty(Tail(ps))

\* The blank-separated words of an output row.
Words(line) == NonEmpty(Split(line, 32))

\* The fields of the records of entries i, i + rows, i + 2 rows, ... below
\* entryc (0-based), one after the other.
RECURSIVE FieldsDown(_, _)
FieldsDown(p, rows) ==
  IF p >= entryc THEN <<>>
  ELSE Split(RecordAt(p + 1), DELIMITER) \o FieldsDown(p + rows, rows)

\* C17: filled down in R rows and C = ceil(n/R) columns, the output is R
\* rows, each ended by one newline; row i holds entries i, i + R, i + 2R, ...
\* in that order and no others, so entry p is in row p mod R, grid column
\* p div R; a cell without an entry is in the last grid column.
C17_ColumnsDownPlacement ==
  (gpc = "done" /\ IsGrid /\ pe_call.flag.Cflag /\ entryc > 0 /\ SameFieldCount(entryc)) =>
    /\ curr_col = CeilDiv(entryc, curr_row)
    /\ Len(Split(out, 10)) = curr_row + 1
    /\ Split(out, 10)[curr_row + 1] = <<>>
    /\ \A i \in 0..(curr_row - 1) :
         Words(Split(out, 10)[i + 1]) = FieldsDown(i, curr_row)
    /\ \A i \in 0..(curr_row - 1), j \in 0..(curr_col - 1) :
         i + j * curr_row >= entryc => j = curr_col - 1

\* "a", "b", "ccc" in two rows of two columns: the second row has no entry
\* in its last cell and ends "b", padding, newline.
C17_Witness ==
  /\ gpc = "done"
  /\ pe_call.flag.Cflag
  /\ entryc = 3
  /\ curr_row = 2
  /\ curr_col = 2
  /\ out = <<97, 32, 99, 99, 99, 10, 98, 32, 10>>

(***************************************************************************)
(* statdir on a directory that changes between its two passes: SpecStatdir *)
(***************************************************************************)
\* The most names a directory starts with.
MaxDirents == 4

\* ".", "..", a hidden file and two plain ones.
NamePool == <<<<46>>, <<46, 46>>, <<46, 104>>, <<97>>, <<98>>>>

\* The directories of at most n names: "." and ".." and some of the others,
\* in any readdir order.
Directories(n) ==
  {d \in UNION {[1..k -> 1..Len(NamePool)] : k \in 2..n} :
     /\ \A a, b \in DOMAIN d : a # b => d[a] # d[b]
     /\ \E a, b \in DOMAIN d : d[a] = 1 /\ d[b] = 2}

NamesOf(d) == [k \in DOMAIN d |-> NamePool[d[k]]]

\* lstat_path on a name of the directory: "." and ".." are directories.
lstat_path(name) ==
  IF is_dot_dir(name) THEN StatOf(S_IFDIR, 512, 0, 0, 0) ELSE RegularSb

\* file_count: readdir until it returns NULL.
file_count(dir) == Len(dir)

\* ls.c:347: the loop condition of statdir; readdir returns NULL after the
\* last name.
MoreToRead(i, file_c, dir) == (i < file_c) /\ (i < Len(dir))

\* ls.c:347-355 from i on (0-based), with the entries stored so far.
RECURSIVE statdir_loop(_, _, _, _, _)
statdir_loop(dir, file_c, flag, i, shown) ==
  IF MoreToRead(i, file_c, dir)
  THEN IF display_file(dir[i + 1], flag)
       THEN IF Len(dir[i + 1]) + 1 > NAME_MAX + 1
            THEN [i |-> i, entry |-> shown, err |-> "file name too long"]
            ELSE statdir_loop(dir, file_c, flag, i + 1,
                   Append(shown, FileEntry(dir[i + 1], lstat_path(dir[i + 1]))))
       ELSE statdir_loop(dir, file_c, flag, i + 1, shown)
  ELSE [i |-> i, entry |-> shown, err |-> ""]

\* statdir after file_count returned file_c (its entryc): the listing pass
\* over dir and the test of ls.c:360-365.  entry holds the displayed
\* elements of the array, entryc their number, read the final i.
statdir(dir, file_c, flag) ==
  LET r == statdir_loop(dir, file_c, flag, 0, <<>>)
  IN IF r.err # "" THEN [read |-> r.i, entry |-> <<>>, entryc |-> 0, err |-> r.err]
     ELSE IF r.i < file_c
          THEN [read |-> r.i, entry |-> <<>>, entryc |-> 0, err |-> "files were removed"]
          ELSE IF r.i > file_c
               THEN [read |-> r.i, entry |-> <<>>, entryc |-> 0, err |-> "files were added"]
               ELSE [read |-> r.i, entry |-> r.entry, entryc |-> Len(r.entry), err |-> ""]

InitStatdir ==
  /\ dirents \in {NamesOf(d) : d \in Directories(MaxDirents)}
  /\ sd_flag \in {[flags_init EXCEPT !.aflag = a] : a \in BOOLEAN}
  /\ sd_entryc = 0
  /\ dir_info = <<>>
  /\ sdpc = "call"
  /\ sort_key = SORT_LEXICO
  /\ reverse = 0
  /\ CmpIdle
  /\ ArgsIdle
  /\ RecIdle
  /\ GridIdle
  /\ SizeIdle

statOther == <<sortVars, cmpVars, argVars, recVars, gridVars, sizeVars>>

\* The counting pass (ls.c:338).
FileCount ==
  /\ sdpc = "call"
  /\ sd_entryc' = file_count(dirents)
  /\ sdpc' = "counted"
  /\ UNCHANGED <<dirents, sd_flag, dir_info, statOther>>

\* Another process creates a file between the two passes.
DirAdd ==
  /\ sdpc = "counted"
  /\ \E n \in 1..Len(NamePool), k \in 0..Len(dirents) :
       /\ \A j \in 1..Len(dirents) : dirents[j] # NamePool[n]
       /\ dirents' = SubSeq(dirents, 1, k) \o <<NamePool[n]>>
                       \o SubSeq(dirents, k + 1, Len(dirents))
  /\ UNCHANGED <<sd_flag, sd_entryc, dir_info, sdpc, statOther>>

\* Another process removes a file between the two passes.
DirRemove ==
  /\ sdpc = "counted"
  /\ \E k \in 1..Len(dirents) :
       /\ ~is_dot_dir(dirents[k])
       /\ dirents' = SubSeq(dirents, 1, k - 1) \o SubSeq(dirents, k + 1, Len(dirents))
  /\ UNCHANGED <<sd_flag, sd_entryc, dir_info, sdpc, statOther>>

\* The listing pass and the return or fatal exit of statdir (ls.c:345-370).
ListingPass ==
  /\ sdpc = "counted"
  /\ LET r == statdir(dirents, sd_entryc, sd_flag)
     IN /\ dir_info' = r
        /\ sdpc' = IF r.err # "" THEN "err" ELSE "ret"
  /\ UNCHANGED <<dirents, sd_flag, sd_entryc, statOther>>

NextStatdir == FileCount \/ DirAdd \/ DirRemove \/ ListingPass

SpecStatdir == InitStatdir /\ [][NextStatdir]_vars

\* C18: when the directory read by the listing pass does not have the
\* number of names the counting pass found, names having been removed or
\* added, statdir exits fatally and returns no batch; a listing that
\* completed has read exactly the counted number of names.
C18_ChangedDirectoryIsFatal ==
  /\ (sdpc \in {"ret", "err"} /\ Len(dirents) # sd_entryc) =>
       (sdpc = "err" /\ dir_info.entry = <<>>)
  /\ sdpc = "ret" => dir_info.read = sd_entryc

\* C19: the cursor print_file leaves has pos + remain equal to the buffer
\* size, with remain not wrapped below zero and pos inside the buffer,
\* whatever the length of the formatted numbers, times and link targets.
C19_CursorStaysInBuffer ==
  (ppc \in {"ret", "err"}) =>
    /\ pf_buf.pos + pf_buf.remain = pf_buf.size
    /\ pf_buf.remain >= 0
    /\ pf_buf.pos <= pf_buf.size
    /\ ~pf_buf.oob

\* The outcome of cmp on keys ka and kb that puts the larger key first.
Descending(ka, kb) ==
  IF ka > kb THEN "less" ELSE IF ka = kb THEN "equal" ELSE "greater"

\* C20: under the size key and the three time keys, with reverse unset cmp
\* says less exactly when the first entry's key is the larger, equal when
\* the keys are equal and greater otherwise, so that the largest or newest
\* comes first; with reverse set the outcome is the opposite one.
C20_StatKeysDescend ==
  (cpc = "ret" /\ sort_key # SORT_LEXICO) =>
    \A i \in 1..3, j \in 1..3 :
      LET a == cmp_args[IF reverse = 0 THEN i ELSE j].sb
          b == cmp_args[IF reverse = 0 THEN j ELSE i].sb
      IN /\ sort_key = SORT_SIZE =>
              Ordering(cmp_res[i, j]) = Descending(a.st_size, b.st_size)
         /\ sort_key = SORT_ATIME =>
              Ordering(cmp_res[i, j]) = Descending(a.st_atime, b.st_atime)
         /\ sort_key = SORT_MTIME =>
              Ordering(cmp_res[i, j]) = Descending(a.st_mtime, b.st_mtime)
         /\ sort_key = SORT_CTIME =>
              Ordering(cmp_res[i, j]) = Descending(a.st_ctime, b.st_ctime)

\* cmp has run under the ctime key without reverse on an entry changed later
\* but read earlier than the second, and on two with the same ctime: the
\* first pair is less, the other equal.
C20_Witness ==
  /\ cpc = "ret"
  /\ sort_key = SORT_CTIME
  /\ reverse = 0
  /\ cmp_args[1].sb.st_ctime > cmp_args[2].sb.st_ctime
  /\ cmp_args[1].sb.st_atime < cmp_args[2].sb.st_atime
  /\ cmp_res[1, 2] < 0
  /\ cmp_args[2].sb.st_ctime = cmp_args[3].sb.st_ctime
  /\ cmp_args[2] # cmp_args[3]
  /\ cmp_res[2, 3] = 0

====
